---- MODULE Spec2Model ----
(***************************************************************************)
(* MarkdownGenerator (src/markdowngenerator/markdowngenerator.py).         *)
(*                                                                         *)
(* A text is a sequence of one-character strings.  A fragment is one text  *)
(* appended to document_data_array.  Python lists live in a heap and are   *)
(* referred to by their index, so that two builders holding the same list  *)
(* object and two builders holding equal lists are different states.       *)
(***************************************************************************)
EXTENDS Integers, Sequences, FiniteSets, TLC

VARIABLES
    pc,                           \* builder -> "none" | "new" | "entered" | "exited"
    root_object,                  \* builder -> self.root_object
    enable_write,                 \* builder -> self.enable_write
    document,                     \* builder -> "None" | "file"   (self.document)
    document_data_array,          \* builder -> heap index       (self.document_data_array)
    pending_footnote_references,  \* builder -> heap index
    header_info,                  \* builder -> heap index
    heap,                         \* the list objects: sequence of sequences
    file,                         \* the destination stream
    last,                         \* the last call: its arguments and its outcome
    calls                         \* number of emission calls made so far

vars == <<pc, root_object, enable_write, document, document_data_array,
          pending_footnote_references, header_info, heap, file, last, calls>>

Builders == {"root", "child"}

\* Emission calls made in one behaviour (root and child together).
MaxCalls == 2

\* Emission calls made in one behaviour of the single-builder table specification.
MaxTableCalls == 1

-----------------------------------------------------------------------------
(* Python values *)

NoneV == [t |-> "none"]
IntV(n) == [t |-> "int", n |-> n]
StrV(s) == [t |-> "str", s |-> s]
ListV(items) == [t |-> "list", items |-> items]
DictV(keys, vals) == [t |-> "dict", keys |-> keys, vals |-> vals]

\* bool(v)
Truthy(v) ==
    CASE v.t = "none" -> FALSE
      [] v.t = "int" -> v.n # 0
      [] v.t = "str" -> v.s # <<>>
      [] v.t = "list" -> v.items # <<>>
      [] v.t = "dict" -> v.keys # <<>>

\* iter(v) succeeds
Iterable(v) == v.t \in {"str", "list", "dict"}

\* list(iter(v)) of an iterable v
Iterate(v) ==
    CASE v.t = "list" -> v.items
      [] v.t = "dict" -> [i \in 1..Len(v.keys) |-> StrV(v.keys[i])]
      [] v.t = "str" -> [i \in 1..Len(v.s) |-> StrV(<<v.s[i]>>)]

\* hasattr(v, "keys")
HasKeys(v) == v.t = "dict"

\* v.get(key) of a dict
Get(v, key) ==
    LET hits == {i \in 1..Len(v.keys) : v.keys[i] = key}
    IN IF hits = {} THEN NoneV ELSE v.vals[CHOOSE i \in hits : TRUE]

Digit(n) == <<"0", "1", "2", "3", "4", "5", "6", "7", "8", "9">>[n + 1]

RECURSIVE Digits(_)
Digits(n) == IF n < 10 THEN <<Digit(n)>> ELSE Digits(n \div 10) \o <<Digit(n % 10)>>

\* str(v)
Str(v) ==
    CASE v.t = "none" -> <<"N", "o", "n", "e">>
      [] v.t = "int" -> IF v.n < 0 THEN <<"-">> \o Digits(-v.n) ELSE Digits(v.n)
      [] v.t = "str" -> v.s

\* html.escape(c) of one character (quote=True)
EscapeChar(c) ==
    CASE c = "&" -> <<"&", "a", "m", "p", ";">>
      [] c = "<" -> <<"&", "l", "t", ";">>
      [] c = ">" -> <<"&", "g", "t", ";">>
      [] c = "\"" -> <<"&", "q", "u", "o", "t", ";">>
      [] c = "'" -> <<"&", "#", "x", "2", "7", ";">>
      [] OTHER -> <<c>>

RECURSIVE escape(_)
escape(s) == IF s = <<>> THEN <<>> ELSE EscapeChar(Head(s)) \o escape(Tail(s))

Upper(c) ==
    CASE c = "a" -> "A" [] c = "b" -> "B" [] c = "x" -> "X" [] c = "y" -> "Y"
      [] OTHER -> c

Lower(c) ==
    CASE c = "A" -> "a" [] c = "B" -> "b" [] c = "X" -> "x" [] c = "Y" -> "y"
      [] OTHER -> c

\* str.capitalize()
capitalize(s) ==
    IF s = <<>> THEN <<>>
    ELSE <<Upper(s[1])>> \o [i \in 1..(Len(s) - 1) |-> Lower(s[i + 1])]

\* str.strip() for the blank character
RECURSIVE lstrip(_)
lstrip(s) == IF s # <<>> /\ Head(s) = " " THEN lstrip(Tail(s)) ELSE s

RECURSIVE rstrip(_)
rstrip(s) == IF s # <<>> /\ s[Len(s)] = " " THEN rstrip(SubSeq(s, 1, Len(s) - 1)) ELSE s

strip(s) == rstrip(lstrip(s))

linesep == <<"\n">>

RECURSIVE Repeat(_, _)
Repeat(s, n) == IF n = 0 THEN <<>> ELSE s \o Repeat(s, n - 1)

RECURSIVE Flatten(_)
Flatten(ss) == IF ss = <<>> THEN <<>> ELSE Head(ss) \o Flatten(Tail(ss))

IsPrefix(s, t) == Len(s) <= Len(t) /\ SubSeq(t, 1, Len(s)) = s

-----------------------------------------------------------------------------
(* The fragment each primitive appends *)

\* writeText(text, html_escape): the fragment appended
writeTextFragment(text, html_escape) ==
    IF html_escape THEN escape(Str(text)) ELSE Str(text)

\* writeTextLine(text, html_escape): the fragment appended
writeTextLineFragment(text, html_escape) ==
    IF text.t = "none" THEN <<" ", " ">> \o linesep
    ELSE IF html_escape THEN escape(Str(text)) \o <<" ", " ">> \o linesep
    ELSE Str(text) \o <<" ", " ">> \o linesep

-----------------------------------------------------------------------------
(* addTable: the fragments one call appends, the exception it ends with    *)
(* ("none" when it returns), and the number of errors and warnings logged. *)

T(str) == StrV(str)

\* cellFragments without the html_escape=False of lines 513 and 528.
cellFragmentsEscapedBreak(element, html_escape) ==
    IF element.t = "list"
    THEN <<writeTextFragment(T(<<"|", " ">>), TRUE)>>
         \o Flatten([i \in 1..Len(element.items) |->
                <<writeTextFragment(element.items[i], TRUE),
                  writeTextFragment(T(<<"<", "b", "r", ">", " ">>), TRUE)>>])
    ELSE <<writeTextFragment(T(<<"|", " ">> \o Str(element) \o <<" ">>), html_escape)>>

\* One cell: lines 509-515 (row mode) and 524-530 (dictionary mode).
cellFragments(element, html_escape) ==
    IF element.t = "list"
    THEN <<writeTextFragment(T(<<"|", " ">>), TRUE)>>
         \o Flatten([i \in 1..Len(element.items) |->
                <<writeTextFragment(element.items[i], TRUE),
                  writeTextFragment(T(<<"<", "b", "r", ">", " ">>), FALSE)>>])
    ELSE <<writeTextFragment(T(<<"|", " ">> \o Str(element) \o <<" ">>), html_escape)>>

\* The header loop, lines 470-475.  header.capitalize() exists on str only.
RECURSIVE headerCells(_, _)
headerCells(names, capitalize_headers) ==
    IF names = <<>> THEN [frags |-> <<>>, raised |-> "none"]
    ELSE LET header == Head(names)
         IN IF capitalize_headers /\ header.t # "str"
            THEN [frags |-> <<>>, raised |-> "AttributeError"]
            ELSE LET name == IF capitalize_headers THEN capitalize(header.s)
                             ELSE Str(header)
                     frag == writeTextFragment(T(<<"|", " ">> \o name \o <<" ">>), TRUE)
                     rest == headerCells(Tail(names), capitalize_headers)
                 IN [frags |-> <<frag>> \o rest.frags, raised |-> rest.raised]

\* The dashes that separate the headers, lines 483-495.
separatorCell(alignment) ==
    CASE alignment = "left" -> <<":", "-", "-", "-", "|">>
      [] alignment = "center" -> <<":", "-", "-", "-", ":", "|">>
      [] alignment = "right" -> <<"-", "-", "-", ":", "|">>
      [] OTHER -> <<":", "-", "-", "-", ":", "|">>

separatorLine(alignment, n) ==
    writeTextLineFragment(T(<<"|">> \o Repeat(separatorCell(alignment), n)), TRUE)

\* One row of row_elements: the test of line 501.
rowSkipped(row, n) == Len(row.items) > n

\* The fragments of one row that is not skipped, lines 506-517.
rowFragments(row, html_escape) ==
    Flatten([i \in 1..Len(row.items) |-> cellFragments(row.items[i], html_escape)])
    \o <<writeTextLineFragment(T(<<"|">>), TRUE)>>

\* rowElements with "break" for the "continue" of line 505.
RECURSIVE rowElementsBreak(_, _, _)
rowElementsBreak(rows, n, html_escape) ==
    IF rows = <<>> THEN [frags |-> <<>>, errors |-> 0]
    ELSE IF rowSkipped(Head(rows), n) THEN [frags |-> <<>>, errors |-> 1]
    ELSE LET rest == rowElementsBreak(Tail(rows), n, html_escape)
         IN [frags |-> rowFragments(Head(rows), html_escape) \o rest.frags,
             errors |-> rest.errors]

\* The loop over row_elements, lines 500-517.
RECURSIVE rowElements(_, _, _)
rowElements(rows, n, html_escape) ==
    IF rows = <<>> THEN [frags |-> <<>>, errors |-> 0]
    ELSE LET rest == rowElements(Tail(rows), n, html_escape)
         IN IF rowSkipped(Head(rows), n)
            THEN [frags |-> rest.frags, errors |-> rest.errors + 1]
            ELSE [frags |-> rowFragments(Head(rows), html_escape) \o rest.frags,
                  errors |-> rest.errors]

\* The loop over dictionary_list, lines 522-531.  row.keys() is not caught.
RECURSIVE dictionaryRows(_, _)
dictionaryRows(records, html_escape) ==
    IF records = <<>> THEN [frags |-> <<>>, raised |-> "none"]
    ELSE LET row == Head(records)
         IN IF ~HasKeys(row) THEN [frags |-> <<>>, raised |-> "AttributeError"]
            ELSE LET cells == Flatten([i \in 1..Len(row.keys) |->
                                  cellFragments(Get(row, row.keys[i]), html_escape)])
                     rest == dictionaryRows(Tail(records), html_escape)
                 IN [frags |-> cells \o <<writeTextLineFragment(T(<<"|">>), TRUE)>>
                                \o rest.frags,
                     raised |-> rest.raised]

\* Line 433-443: the row loop is taken unless row_elements is None.
useDictionaryList(row_elements, dictionary_list) == row_elements.t = "none"

Outcome(frags, raised, errors, warnings) ==
    [frags |-> frags, raised |-> raised, errors |-> errors, warnings |-> warnings]

\* Lines 497-532, once the header and the separator are written.
tableBody(header_names, row_elements, dictionary_list, html_escape) ==
    IF ~useDictionaryList(row_elements, dictionary_list)
    THEN LET rows == rowElements(Iterate(row_elements),
                                 Len(Iterate(header_names)), html_escape)
         IN Outcome(rows.frags \o <<writeTextLineFragment(NoneV, TRUE)>>,
                    "none", rows.errors, 0)
    ELSE LET rows == dictionaryRows(Iterate(dictionary_list), html_escape)
         IN IF rows.raised # "none" THEN Outcome(rows.frags, rows.raised, 0, 0)
            ELSE Outcome(rows.frags \o <<writeTextLineFragment(NoneV, TRUE)>>,
                         "none", 0, 0)

\* Lines 470-495 for header names that can be iterated, then the body.
tableRows(header_names, row_elements, dictionary_list, alignment, html_escape, capitalize_headers) ==
    LET cells == headerCells(Iterate(header_names), capitalize_headers)
        warned == IF alignment \in {"left", "center", "right"} THEN 0 ELSE 1
    IN IF cells.raised # "none" THEN Outcome(cells.frags, cells.raised, 0, 0)
       ELSE LET body == tableBody(header_names, row_elements, dictionary_list,
                                  html_escape)
            IN Outcome(cells.frags
                         \o <<writeTextLineFragment(T(<<"|">>), TRUE),
                              separatorLine(alignment, Len(Iterate(header_names)))>>
                         \o body.frags,
                       body.raised, body.errors, warned)

\* tableFrom without the "except TypeError" of line 476.
tableFromRaising(header_names, row_elements, dictionary_list, alignment, html_escape, capitalize_headers) ==
    IF ~Iterable(header_names)
    THEN Outcome(<<>>, "TypeError", 0, 0)
    ELSE tableRows(header_names, row_elements, dictionary_list, alignment,
                   html_escape, capitalize_headers)

\* Lines 469-478: "for header in header_names" raises TypeError when
\* header_names cannot be iterated; it is caught, logged, and the call returns.
tableFrom(header_names, row_elements, dictionary_list, alignment, html_escape, capitalize_headers) ==
    IF ~Iterable(header_names)
    THEN Outcome(<<>>, "none", 1, 0)
    ELSE tableRows(header_names, row_elements, dictionary_list, alignment,
                   html_escape, capitalize_headers)

\* Lines 445-478 and on: the call once one of the two inputs is given.
addTableChecked(header_names, row_elements, dictionary_list, alignment, html_escape, capitalize_headers) ==
    LET useProvidedHeadernames == Truthy(header_names)
        blank == <<writeTextLineFragment(NoneV, TRUE)>>
        fromKeys == ~useProvidedHeadernames /\ Truthy(dictionary_list)
    IN IF fromKeys /\ ~HasKeys(dictionary_list.items[1])
       THEN Outcome(blank, "none", 1, 0)     \* AttributeError caught at line 464
       ELSE LET names == IF fromKeys
                         THEN ListV(Iterate(dictionary_list.items[1]))
                         ELSE header_names
                rest == tableFrom(names, row_elements, dictionary_list,
                                  alignment, html_escape, capitalize_headers)
            IN Outcome(blank \o rest.frags, rest.raised, rest.errors,
                       rest.warnings)

\* addTable that logs the missing input and returns, without the raise of line 439.
addTableOutcomeLogged(header_names, row_elements, dictionary_list, alignment, html_escape, capitalize_headers) ==
    IF row_elements.t = "none" /\ dictionary_list.t = "none"
    THEN Outcome(<<>>, "none", 0, 1)
    ELSE addTableChecked(header_names, row_elements, dictionary_list, alignment,
                         html_escape, capitalize_headers)

\* addTable, lines 409-532.
addTableOutcome(header_names, row_elements, dictionary_list, alignment, html_escape, capitalize_headers) ==
    IF row_elements.t = "none" /\ dictionary_list.t = "none"
    THEN Outcome(<<>>, "TypeError", 0, 1)
    ELSE addTableChecked(header_names, row_elements, dictionary_list, alignment,
                         html_escape, capitalize_headers)

-----------------------------------------------------------------------------
(* Inputs *)

ch(c) == StrV(<<c>>)

\* text arguments of writeText, writeTextLine and addBoldedText
TextChoices == <<ch("a"), StrV(<<" ", "<", "&", " ">>)>>

\* header_names
HeaderChoices == <<NoneV, ListV(<<ch("x"), ch("y")>>), IntV(5), ListV(<<ch("x")>>)>>

\* row_elements
RowChoices ==
    <<NoneV,
      ListV(<<ListV(<<IntV(1), IntV(2)>>),
              ListV(<<IntV(3), IntV(4), IntV(5)>>),
              ListV(<<ch("<")>>)>>),
      ListV(<<ListV(<<ListV(<<ch("a"), ch("<")>>), ch("&")>>)>>)>>

\* dictionary_list
DictChoices ==
    <<NoneV,
      ListV(<<DictV(<<<<"a">>, <<"b">>>>, <<IntV(1), IntV(2)>>),
              DictV(<<<<"a">>, <<"b">>>>, <<ch(">"), ListV(<<ch("a"), ch("b")>>)>>)>>),
      ListV(<<IntV(5)>>),
      ListV(<<DictV(<<<<"a">>>>, <<IntV(1)>>), IntV(5)>>)>>

\* alignment
Alignments == <<"left", "center", "right", "justify">>

\* pending_footnote_references handed to the root's constructor
FootnoteChoices ==
    <<<<>>,
      <<[index |-> 1, reference_text |-> <<"r">>],
        [index |-> 2, reference_text |-> <<"s">>]>>>>

-----------------------------------------------------------------------------
(* The builders *)

NoCall ==
    [op |-> "none", by |-> "root", text |-> NoneV, header_names |-> NoneV,
     row_elements |-> NoneV, dictionary_list |-> NoneV, alignment |-> "center",
     html_escape |-> TRUE, capitalize_headers |-> FALSE, frags |-> <<>>,
     raised |-> "none", errors |-> 0, warnings |-> 0]

\* MarkdownGenerator(enable_write=ew, pending_footnote_references=notes)
Init ==
    /\ pc = [b \in Builders |-> IF b = "root" THEN "new" ELSE "none"]
    /\ root_object = [b \in Builders |-> TRUE]
    /\ \E ew \in BOOLEAN : enable_write = [b \in Builders |-> ew]
    /\ document = [b \in Builders |-> "None"]
    /\ document_data_array = [b \in Builders |-> IF b = "root" THEN 1 ELSE 0]
    /\ pending_footnote_references = [b \in Builders |-> IF b = "root" THEN 2 ELSE 0]
    /\ header_info = [b \in Builders |-> IF b = "root" THEN 3 ELSE 0]
    /\ \E i \in 1..Len(FootnoteChoices) : heap = <<<<>>, FootnoteChoices[i], <<>>>>
    /\ file = [opened |-> FALSE, closed |-> FALSE, content |-> <<>>, writelines |-> 0]
    /\ last = NoCall
    /\ calls = 0

\* "x if x else []" of lines 96, 120 and 127: the list handed in, or a new one.
GivenOrNew(given, h) == IF h[given] # <<>> THEN given ELSE Len(h) + 1

Allocate(given, h) == IF GivenOrNew(given, h) = given THEN h ELSE Append(h, <<>>)

\* child = MarkdownGenerator(document=root.document, root_object=False,
\*     document_data_array=root.document_data_array,
\*     pending_footnote_references=root.pending_footnote_references,
\*     header_data_array=root.header_info, enable_write=ew)
__init__(ew) ==
    /\ pc["root"] = "entered"
    /\ pc["child"] = "none"
    /\ LET h1 == Allocate(document_data_array["root"], heap)
           h2 == Allocate(pending_footnote_references["root"], h1)
           h3 == Allocate(header_info["root"], h2)
       IN /\ document_data_array' = [document_data_array EXCEPT
                 !["child"] = GivenOrNew(document_data_array["root"], heap)]
          /\ pending_footnote_references' = [pending_footnote_references EXCEPT
                 !["child"] = GivenOrNew(pending_footnote_references["root"], h1)]
          /\ header_info' = [header_info EXCEPT
                 !["child"] = GivenOrNew(header_info["root"], h2)]
          /\ heap' = h3
    /\ pc' = [pc EXCEPT !["child"] = "new"]
    /\ root_object' = [root_object EXCEPT !["child"] = FALSE]
    /\ enable_write' = [enable_write EXCEPT !["child"] = ew]
    /\ document' = [document EXCEPT !["child"] = document["root"]]
    /\ last' = [NoCall EXCEPT !.op = "__init__", !.by = "child"]
    /\ UNCHANGED <<file, calls>>

\* __enter__, lines 133-154
__enter__(b) ==
    /\ pc[b] = "new"
    /\ pc' = [pc EXCEPT ![b] = "entered"]
    /\ IF document[b] = "None"
       THEN /\ document' = [document EXCEPT ![b] = "file"]
            /\ file' = [opened |-> TRUE, closed |-> FALSE, content |-> <<>>,
                        writelines |-> 0]
       ELSE UNCHANGED <<document, file>>
    /\ last' = [NoCall EXCEPT !.op = "__enter__", !.by = b]
    /\ UNCHANGED <<root_object, enable_write, document_data_array,
                   pending_footnote_references, header_info, heap, calls>>

\* __exit__ without the "if not self.enable_write" of line 169.
__exit__Rewrites(b) ==
    /\ pc[b] = "entered"
    /\ pc' = [pc EXCEPT ![b] = "exited"]
    /\ IF file.closed
       THEN /\ file' = file
            /\ last' = [NoCall EXCEPT !.op = "__exit__", !.by = b,
                                      !.raised = "ValueError"]
       ELSE /\ file' = [file EXCEPT
                   !.content = @ \o heap[document_data_array[b]],
                   !.writelines = @ + 1,
                   !.closed = TRUE]
            /\ last' = [NoCall EXCEPT !.op = "__exit__", !.by = b]
    /\ UNCHANGED <<root_object, enable_write, document, document_data_array,
                   pending_footnote_references, header_info, heap, calls>>

\* __exit__, lines 156-171.  writelines on a closed file raises ValueError and
\* close() is not reached; close() of a closed file does nothing.
__exit__(b) ==
    /\ pc[b] = "entered"
    /\ pc' = [pc EXCEPT ![b] = "exited"]
    /\ IF ~enable_write[b] /\ file.closed
       THEN /\ file' = file
            /\ last' = [NoCall EXCEPT !.op = "__exit__", !.by = b,
                                      !.raised = "ValueError"]
       ELSE /\ file' = [file EXCEPT
                   !.content = IF enable_write[b] THEN @
                               ELSE @ \o heap[document_data_array[b]],
                   !.writelines = IF enable_write[b] THEN @ ELSE @ + 1,
                   !.closed = TRUE]
            /\ last' = [NoCall EXCEPT !.op = "__exit__", !.by = b]
    /\ UNCHANGED <<root_object, enable_write, document, document_data_array,
                   pending_footnote_references, header_info, heap, calls>>

\* A builder can emit: the root inside its with block, the child from its
\* construction on (its document is the root's open file).
CanEmit(b) ==
    \/ pc[b] = "entered"
    \/ b = "child" /\ pc[b] = "new"

\* Emit with insert(0, fragment) for append(fragment).
EmitInsert(b, call, out) ==
    LET id == document_data_array[b]
        failed == enable_write[b] /\ file.closed /\ out.frags # <<>>
        appended == IF failed THEN <<Head(out.frags)>> ELSE out.frags
    IN /\ heap' = [heap EXCEPT ![id] = appended \o @]
       /\ file' = IF enable_write[b] /\ ~failed
                  THEN [file EXCEPT !.content = @ \o appended]
                  ELSE file
       /\ last' = [call EXCEPT
              !.by = b,
              !.frags = appended,
              !.raised = IF failed THEN "ValueError" ELSE out.raised,
              !.errors = IF failed THEN 0 ELSE out.errors,
              !.warnings = IF failed THEN 0 ELSE out.warnings]
       /\ calls' = calls + 1
       /\ UNCHANGED <<pc, root_object, enable_write, document, document_data_array,
                      pending_footnote_references, header_info>>

\* The appends of one call, lines 184-190 and 208-220: each fragment is appended
\* to document_data_array and then, if enable_write, written to the document;
\* write on a closed file raises ValueError after the append.
Emit(b, call, out) ==
    LET id == document_data_array[b]
        failed == enable_write[b] /\ file.closed /\ out.frags # <<>>
        appended == IF failed THEN <<Head(out.frags)>> ELSE out.frags
    IN /\ heap' = [heap EXCEPT ![id] = @ \o appended]
       /\ file' = IF enable_write[b] /\ ~failed
                  THEN [file EXCEPT !.content = @ \o appended]
                  ELSE file
       /\ last' = [call EXCEPT
              !.by = b,
              !.frags = appended,
              !.raised = IF failed THEN "ValueError" ELSE out.raised,
              !.errors = IF failed THEN 0 ELSE out.errors,
              !.warnings = IF failed THEN 0 ELSE out.warnings]
       /\ calls' = calls + 1
       /\ UNCHANGED <<pc, root_object, enable_write, document, document_data_array,
                      pending_footnote_references, header_info>>

\* writeText, lines 173-190
writeText(b, text, html_escape) ==
    /\ CanEmit(b)
    /\ Emit(b, [NoCall EXCEPT !.op = "writeText", !.text = text,
                              !.html_escape = html_escape],
            Outcome(<<writeTextFragment(text, html_escape)>>, "none", 0, 0))

\* writeTextLine, lines 192-220
writeTextLine(b, text, html_escape) ==
    /\ CanEmit(b)
    /\ Emit(b, [NoCall EXCEPT !.op = "writeTextLine", !.text = text,
                              !.html_escape = html_escape],
            Outcome(<<writeTextLineFragment(text, html_escape)>>, "none", 0, 0))

\* addBoldedText(text, write_as_line=True), lines 226-242
addBoldedText(b, text) ==
    /\ CanEmit(b)
    /\ LET bolded == StrV(<<"*", "*">> \o strip(text.s) \o <<"*", "*">>)
       IN Emit(b, [NoCall EXCEPT !.op = "addBoldedText", !.text = text],
               Outcome(<<writeTextLineFragment(bolded, TRUE)>>, "none", 0, 0))

\* addTable, lines 409-532
addTable(b, header_names, row_elements, dictionary_list, alignment, html_escape, capitalize_headers) ==
    /\ CanEmit(b)
    /\ Emit(b, [NoCall EXCEPT !.op = "addTable",
                              !.header_names = header_names,
                              !.row_elements = row_elements,
                              !.dictionary_list = dictionary_list,
                              !.alignment = alignment,
                              !.html_escape = html_escape,
                              !.capitalize_headers = capitalize_headers],
            addTableOutcome(header_names, row_elements, dictionary_list,
                            alignment, html_escape, capitalize_headers))

\* One emission call with any of the inputs.
Call(b) ==
    \/ \E i \in 1..Len(TextChoices), e \in BOOLEAN : writeText(b, TextChoices[i], e)
    \/ \E i \in 0..Len(TextChoices), e \in BOOLEAN :
          writeTextLine(b, IF i = 0 THEN NoneV ELSE TextChoices[i], e)
    \/ \E i \in 1..Len(TextChoices) : addBoldedText(b, TextChoices[i])

\* The table calls of the two-builder specification: a call without input, a row
\* table with a row that is too long, a dictionary table, a dictionary list whose
\* first record has no keys(), and one whose second record has none.
TableSamples ==
    <<<<1, 1, 1>>, <<2, 2, 1>>, <<1, 1, 2>>, <<1, 1, 3>>, <<2, 1, 4>>>>

SampleTable(b) ==
    \E i \in 1..Len(TableSamples) :
        addTable(b, HeaderChoices[TableSamples[i][1]], RowChoices[TableSamples[i][2]],
                 DictChoices[TableSamples[i][3]], "center", TRUE, FALSE)

AnyTable(b) ==
    \E h \in 1..Len(HeaderChoices), r \in 1..Len(RowChoices),
       d \in 1..Len(DictChoices), a \in 1..Len(Alignments),
       e \in BOOLEAN, c \in BOOLEAN :
        addTable(b, HeaderChoices[h], RowChoices[r], DictChoices[d],
                 Alignments[a], e, c)

Next ==
    \/ \E ew \in BOOLEAN : __init__(ew)
    \/ \E b \in Builders : __enter__(b)
    \/ \E b \in Builders : __exit__(b)
    \/ \E b \in Builders : calls < MaxCalls /\ Call(b)
    \/ \E b \in Builders : calls < MaxCalls /\ SampleTable(b)

Spec == Init /\ [][Next]_vars

\* One builder and every table call: the root, constructed without footnotes.
InitTable ==
    /\ Init
    /\ heap[2] = <<>>

NextTable ==
    \/ __enter__("root")
    \/ calls < MaxTableCalls /\ AnyTable("root")

SpecTable == InitTable /\ [][NextTable]_vars

-----------------------------------------------------------------------------
(* Properties *)

BufferOf(b) == heap[document_data_array[b]]

IsTableCall == last.op = "addTable"

BlankLine == <<" ", " ", "\n">>

ClosingLine == <<"|", " ", " ", "\n">>

IsSuffix(s, t) == Len(s) <= Len(t) /\ SubSeq(t, Len(t) - Len(s) + 1, Len(t)) = s

\* C1: with one builder, the stream holds after __exit__ exactly the buffer's
\* fragments in append order, each once.  With enable_write False nothing is
\* written before __exit__ and __exit__ writes the buffer in one writelines; with
\* enable_write True the stream follows the buffer fragment by fragment and
\* __exit__ writes nothing.
C1_StreamIsBufferOnce ==
    pc["child"] = "none" =>
        /\ pc["root"] = "exited" => file.content = BufferOf("root")
        /\ ~enable_write["root"] =>
              /\ pc["root"] # "exited" => file.content = <<>> /\ file.writelines = 0
              /\ pc["root"] = "exited" => file.writelines = 1
        /\ enable_write["root"] =>
              /\ file.writelines = 0
              /\ pc["root"] = "entered" => file.content = BufferOf("root")

C1_Witness ==
    /\ pc["child"] = "none"
    /\ pc["root"] = "exited"
    /\ calls = MaxCalls
    /\ Len(file.content) > 2
    /\ file.closed

\* C2: addTable with row_elements None and dictionary_list None raises, whatever
\* header_names and alignment are, and leaves every list as it was.
C2_NoInputRaises ==
    [][(/\ calls' = calls + 1
        /\ last'.op = "addTable"
        /\ last'.row_elements.t = "none"
        /\ last'.dictionary_list.t = "none")
       => (/\ last'.raised = "TypeError"
           /\ last'.frags = <<>>
           /\ heap' = heap
           /\ file' = file)]_vars

C2_Witness ==
    /\ IsTableCall
    /\ last.row_elements.t = "none"
    /\ last.dictionary_list.t = "none"
    /\ last.header_names.t = "list"
    /\ last.alignment = "justify"
    /\ last.raised = "TypeError"

\* The fragments of a completed table after its header and separator rows and
\* before its trailing blank line; n is the number of header names.
BodyOf(frags, n) == SubSeq(frags, n + 4, Len(frags) - 1)

\* C3: with row_elements and dictionary_list both given and non-empty, the body
\* rows are one row per record of dictionary_list, one cell per value, and no row
\* of row_elements.
C3_DictionaryListPrecedence ==
    (/\ IsTableCall
     /\ Truthy(last.row_elements)
     /\ Truthy(last.dictionary_list)
     /\ \A i \in 1..Len(last.dictionary_list.items) :
            HasKeys(last.dictionary_list.items[i])
     /\ last.header_names.t = "list")
    => LET records == last.dictionary_list.items
           row(i) == Flatten([k \in 1..Len(records[i].vals) |->
                         cellFragments(records[i].vals[k], last.html_escape)])
                     \o <<ClosingLine>>
       IN BodyOf(last.frags, Len(last.header_names.items))
              = Flatten([i \in 1..Len(records) |-> row(i)])

\* C4: a row table (header_names and row_elements, no dictionary_list) emits the
\* rows no longer than the header count, in order, each closed by one "|" line;
\* a longer row emits nothing, logs one error and stops nothing; nothing raises.
C4_LongRowsSkipped ==
    (/\ IsTableCall
     /\ last.header_names.t = "list"
     /\ last.row_elements.t = "list"
     /\ last.dictionary_list.t = "none")
    => LET n == Len(last.header_names.items)
           rows == last.row_elements.items
           Fits(row) == Len(row.items) <= n
           kept == SelectSeq(rows, Fits)
           cells(row) == Flatten([k \in 1..Len(row.items) |->
                             cellFragments(row.items[k], last.html_escape)])
       IN /\ last.raised = "none"
          /\ last.errors = Len(rows) - Len(kept)
          /\ BodyOf(last.frags, n)
                = Flatten([i \in 1..Len(kept) |-> cells(kept[i]) \o <<ClosingLine>>])
          /\ last.frags[Len(last.frags)] = BlankLine

C4_Witness ==
    /\ IsTableCall
    /\ last.header_names = HeaderChoices[2]
    /\ last.row_elements = RowChoices[2]
    /\ last.dictionary_list.t = "none"
    /\ last.errors = 1
    /\ Len(last.frags) = 11

\* C5: every list is changed by append only: each list before a step is a prefix
\* of the list after it, also when the step is an addTable that stops part-way.
C5_AppendOnly ==
    [][/\ Len(heap) <= Len(heap')
       /\ \A i \in 1..Len(heap) : IsPrefix(heap[i], heap'[i])]_vars

C5_Witness ==
    /\ IsTableCall
    /\ last.raised = "AttributeError"
    /\ last.frags # <<>>
    /\ Len(BufferOf(last.by)) > Len(last.frags)
    /\ IsSuffix(last.frags, BufferOf(last.by))

\* C6: an addTable whose dictionary_list records have no keys() raises nothing,
\* with or without header_names, and keeps the fragments it had appended.
C6_KeylessRecordsSoftFailure ==
    (/\ IsTableCall
     /\ Truthy(last.dictionary_list)
     /\ \A i \in 1..Len(last.dictionary_list.items) :
            ~HasKeys(last.dictionary_list.items[i]))
    => /\ last.raised = "none"
       /\ last.frags # <<>>

\* The header names the call iterates cannot be iterated: header_names is used
\* (it is given, or there is no dictionary_list to take keys from) and is no
\* iterable; one of the two inputs is there.
HeaderNamesNotIterable ==
    /\ IsTableCall
    /\ ~(last.row_elements.t = "none" /\ last.dictionary_list.t = "none")
    /\ ~Iterable(last.header_names)
    /\ Truthy(last.header_names) \/ ~Truthy(last.dictionary_list)

\* C7 as stated: header names that cannot be iterated make addTable raise.
C7_BadHeaderNamesRaise == HeaderNamesNotIterable => last.raised # "none"

\* C7 as amended: header names that cannot be iterated make addTable log one
\* error and return without raising; the call has appended its leading blank line
\* and nothing else.
C7_BadHeaderNamesLogged ==
    HeaderNamesNotIterable =>
        /\ last.raised = "none"
        /\ last.errors = 1
        /\ last.frags = <<BlankLine>>

C7_Witness ==
    /\ HeaderNamesNotIterable
    /\ last.header_names.t = "none"
    /\ last.row_elements.t = "list"
    /\ last.raised = "none"
    /\ IsSuffix(<<BlankLine>>, BufferOf("root"))

IsEmission == last.op \in {"writeText", "writeTextLine", "addBoldedText", "addTable"}

\* C8: a child constructed with the parent's lists uses those lists: what the
\* child appends is in the parent's buffer.
C8_ChildAppendsToParentBuffer ==
    (IsEmission /\ last.by = "child") => IsSuffix(last.frags, BufferOf("root"))

\* C9: root and child share the stream and the buffer and the child exits first:
\* the root's __exit__ raises nothing and the stream holds the buffer once.
C9_NestedFlushedOnce ==
    (/\ last.op = "__exit__"
     /\ last.by = "root"
     /\ pc["child"] = "exited"
     /\ document_data_array["child"] = document_data_array["root"])
    => /\ last.raised = "none"
       /\ file.content = BufferOf("root")

\* `[^index]: reference_text`, one line per entry
FootnoteLines(notes) ==
    [i \in 1..Len(notes) |->
        <<"[", "^">> \o Digits(notes[i].index) \o <<"]", ":", " ">>
        \o notes[i].reference_text \o linesep]

\* C10: __exit__ renders every pending footnote after the body, in order, and
\* leaves pending_footnote_references empty.
C10_FootnotesRenderedAtExit ==
    [][(/\ pc["child"] = "none"
        /\ pc["root"] = "entered"
        /\ pc'["root"] = "exited")
       => (/\ Flatten(file'.content)
                = Flatten(BufferOf("root"))
                  \o Flatten(FootnoteLines(heap[pending_footnote_references["root"]]))
           /\ heap'[pending_footnote_references["root"]] = <<>>)]_vars

\* The number of fragments of one cell: a list-valued cell is one opener and,
\* for each item, the item and the separator.
CellLen(element) == IF element.t = "list" THEN 1 + 2 * Len(element.items) ELSE 1

RECURSIVE CellsLen(_, _)
CellsLen(elements, k) ==
    IF k = 0 THEN 0 ELSE CellsLen(elements, k - 1) + CellLen(elements[k])

\* frags is one cell of element: a list is "| " and then, item by item, the item
\* (as it is or HTML-escaped) and "<br> "; a scalar v is "| v ", HTML-escaped
\* exactly when html_escape.
CellMatches(frags, element, html_escape) ==
    /\ Len(frags) = CellLen(element)
    /\ IF element.t = "list"
       THEN /\ frags[1] = <<"|", " ">>
            /\ \A i \in 1..Len(element.items) :
                  /\ frags[2 * i] \in {Str(element.items[i]),
                                      escape(Str(element.items[i]))}
                  /\ frags[2 * i + 1] = <<"<", "b", "r", ">", " ">>
       ELSE frags[1] = <<"|", " ">>
                       \o (IF html_escape THEN escape(Str(element))
                           ELSE Str(element))
                       \o <<" ">>

\* frags is one row: the cells of elements in order, then the closing "|" line.
RowMatches(frags, elements, html_escape) ==
    /\ Len(frags) = CellsLen(elements, Len(elements)) + 1
    /\ frags[Len(frags)] = ClosingLine
    /\ \A k \in 1..Len(elements) :
          CellMatches(SubSeq(frags, CellsLen(elements, k - 1) + 1,
                             CellsLen(elements, k)),
                      elements[k], html_escape)

RECURSIVE RowsLen(_, _)
RowsLen(rows, k) ==
    IF k = 0 THEN 0
    ELSE RowsLen(rows, k - 1) + CellsLen(rows[k], Len(rows[k])) + 1

\* body is the rows in order; rows is a sequence of sequences of cell values.
BodyMatches(body, rows, html_escape) ==
    /\ Len(body) = RowsLen(rows, Len(rows))
    /\ \A k \in 1..Len(rows) :
          RowMatches(SubSeq(body, RowsLen(rows, k - 1) + 1, RowsLen(rows, k)),
                     rows[k], html_escape)

\* A row table that is emitted: header names and row_elements are lists.
RowModeCall ==
    /\ IsTableCall
    /\ last.header_names.t = "list"
    /\ last.row_elements.t = "list"

\* A dictionary table that is emitted: no row_elements, every record has keys,
\* and the header names are given as a list or taken from the first record.
DictionaryModeCall ==
    /\ IsTableCall
    /\ last.row_elements.t = "none"
    /\ Truthy(last.dictionary_list)
    /\ \A i \in 1..Len(last.dictionary_list.items) :
          HasKeys(last.dictionary_list.items[i])
    /\ last.header_names.t \in {"list", "none"}

\* C11: in both table modes every cell of the body is one cell: a list-valued
\* cell is one "| " opener followed, for each item in order, by the item and the
\* separator "<br> ", never escaped whatever html_escape is; a scalar cell is
\* "| v ", HTML-escaped exactly when html_escape is true.
C11_ListCellIsOneCell ==
    /\ RowModeCall =>
          LET n == Len(last.header_names.items)
              Fits(row) == Len(row.items) <= n
              kept == SelectSeq(last.row_elements.items, Fits)
          IN BodyMatches(BodyOf(last.frags, n),
                         [i \in 1..Len(kept) |-> kept[i].items],
                         last.html_escape)
    /\ DictionaryModeCall =>
          LET records == last.dictionary_list.items
              n == IF last.header_names.t = "list"
                   THEN Len(last.header_names.items)
                   ELSE Len(records[1].keys)
          IN BodyMatches(BodyOf(last.frags, n),
                         [i \in 1..Len(records) |-> records[i].vals],
                         last.html_escape)

C11_Witness ==
    /\ RowModeCall
    /\ last.row_elements = RowChoices[3]
    /\ last.header_names = HeaderChoices[2]
    /\ ~last.html_escape
    /\ last.raised = "none"
    /\ \E i \in 1..Len(last.frags) : last.frags[i] = <<"<", "b", "r", ">", " ">>
    /\ \E i \in 1..Len(last.frags) : last.frags[i] = <<"|", " ", "&", " ">>

====
